---- MODULE Spec2Model ----
(***************************************************************************)
(* A model of the read/write path of the LSM engine: block and SST format, *)
(* the iterator family, and the LsmStorage facade with its snapshot and    *)
(* flush protocol.  Byte strings are sequences of naturals below 256.      *)
(***************************************************************************)
EXTENDS Integers, Sequences, FiniteSets, TLC

\* ------------------------------------------------------------------ bounds
\* Keys and values the callers draw from (byte strings; keys are non-empty).
Keys == {<<1>>, <<1, 1>>, <<2>>}
Values == {<<1>>, <<2>>}
Threads == {"t1", "t2"}
\* Thread that owns the scan cursor in SpecScan.
ScanThreads == {"t1"}
\* Total number of put/delete calls, and of sync calls, over a run.
MaxWrites == 2
MaxSyncs == 2
\* Total number of get calls over a run.
MaxGets == 1

\* ------------------------------------------------------------------ utils.rs
SIZEOF_USIZE == 4
SIZEOF_U16 == 2
\* The block size sync() hands to SsTableBuilder::new.
SYNC_BLOCK_SIZE == 4096

Min(a, b) == IF a <= b THEN a ELSE b

\* &s[from..to] of a Rust slice (0-based, end exclusive).
slice(s, from, to) == SubSeq(s, from + 1, to)

\* [u8,2] -> u16, big-endian.
two_u8_to_u16(s) == ((s[1] * 256) + s[2]) % 65536

\* BufMut::put_u16 / put_u32 of a length or offset cast with `as`.
put_u16(x) == <<(x % 65536) \div 256, x % 256>>
put_u32(x) ==
    <<(x \div 16777216) % 256, (x \div 65536) % 256, (x \div 256) % 256, x % 256>>

\* Ord::cmp on byte slices: unsigned lexicographic order.
cmp(a, b) ==
    LET n == Min(Len(a), Len(b))
        diff == {i \in 1..n : a[i] # b[i]}
    IN  IF diff = {}
        THEN IF Len(a) < Len(b) THEN "Less"
             ELSE IF Len(a) > Len(b) THEN "Greater" ELSE "Equal"
        ELSE LET i == CHOOSE x \in diff : \A y \in diff : x <= y
             IN  IF a[i] < b[i] THEN "Less" ELSE "Greater"

\* ------------------------------------------------------------------ block/builder.rs
BlockBuilder_new(block_size) ==
    [occupy_size |-> 0, block_size |-> block_size, data |-> <<>>, offsets |-> <<>>]

entry_size(key, value) == SIZEOF_U16 + Len(key) + SIZEOF_U16 + Len(value)

entry_encode(key, value) == put_u16(Len(key)) \o key \o put_u16(Len(value)) \o value

BlockBuilder_is_empty(b) == Len(b.offsets) = 0

\* The outcome of an add that panicked.
AddPanic(b) == [ok |-> FALSE, panicked |-> TRUE, builder |-> b]

\* add returns the bool and the builder after the call.  The usize subtraction
\* block_size - SIZEOF_U16 overflows for block_size < SIZEOF_U16: a build with
\* overflow checks panics there, a build without them wraps to a threshold
\* (2^64 - 2 + block_size) that no occupied size exceeds.
BlockBuilder_add_built(overflow_checks, b, key, value) ==
    LET entry_total_size == entry_size(key, value) + SIZEOF_U16
    IN  IF key = <<>> THEN AddPanic(b)
        ELSE IF b.block_size < SIZEOF_U16 /\ overflow_checks THEN AddPanic(b)
        ELSE IF /\ b.block_size >= SIZEOF_U16
                /\ b.occupy_size + entry_total_size > b.block_size - SIZEOF_U16
                /\ ~BlockBuilder_is_empty(b)
        THEN [ok |-> FALSE, panicked |-> FALSE, builder |-> b]
        ELSE IF Len(b.data) > 65535 THEN AddPanic(b)
        ELSE [ok |-> TRUE, panicked |-> FALSE,
              builder |-> [b EXCEPT !.data = @ \o entry_encode(key, value),
                                    !.offsets = Append(@, Len(b.data)),
                                    !.occupy_size = @ + entry_total_size]]

\* add in the store, where block_size is SYNC_BLOCK_SIZE and both builds agree.
BlockBuilder_add(b, key, value) == BlockBuilder_add_built(TRUE, b, key, value)

BlockBuilder_build(b) == [data |-> b.data, offsets |-> b.offsets]

\* ------------------------------------------------------------------ block.rs
RECURSIVE put_offsets(_)
put_offsets(offsets) ==
    IF offsets = <<>> THEN <<>>
    ELSE put_u16(Head(offsets)) \o put_offsets(Tail(offsets))

Block_encode(block) ==
    block.data \o put_offsets(block.offsets) \o put_u16(Len(block.offsets))

Block_decode(buf) ==
    LET num_of_elements == two_u8_to_u16(slice(buf, Len(buf) - SIZEOF_U16, Len(buf)))
        data_end == Len(buf) - SIZEOF_U16 - (num_of_elements * SIZEOF_U16)
        offsets_raw == slice(buf, data_end, Len(buf) - SIZEOF_U16)
    IN  [data |-> slice(buf, 0, data_end),
         offsets |-> [i \in 1..num_of_elements |->
                        two_u8_to_u16(slice(offsets_raw, (i - 1) * SIZEOF_U16, i * SIZEOF_U16))]]

\* ------------------------------------------------------------------ block/iterator.rs
\* idx is 0-based as in the source.
BlockIterator_new(block) == [block |-> block, key |-> <<>>, value |-> <<>>, idx |-> 0]

BlockIterator_is_valid(it) == it.key # <<>>

seek_to_offset(it, offset) ==
    LET d == it.block.data
        key_len == two_u8_to_u16(slice(d, offset, offset + SIZEOF_U16))
        key_end == offset + SIZEOF_U16 + key_len
        value_len == two_u8_to_u16(slice(d, key_end, key_end + SIZEOF_U16))
    IN  [it EXCEPT !.key = slice(d, offset + SIZEOF_U16, key_end),
                   !.value = slice(d, key_end + SIZEOF_U16, key_end + SIZEOF_U16 + value_len)]

seek_to_idx(it, idx) ==
    IF idx >= Len(it.block.offsets)
    THEN [it EXCEPT !.key = <<>>, !.value = <<>>]
    ELSE [seek_to_offset(it, it.block.offsets[idx + 1]) EXCEPT !.idx = idx]

BlockIterator_seek_to_first(it) == seek_to_idx(it, 0)

BlockIterator_next(it) == seek_to_idx([it EXCEPT !.idx = @ + 1], it.idx + 1)

RECURSIVE seek_to_key_loop(_, _, _, _)
seek_to_key_loop(it, low, high, key) ==
    IF low < high
    THEN LET mid == low + ((high - low) \div 2)
             probed == seek_to_idx(it, mid)
             ord == cmp(probed.key, key)
         IN  IF ord = "Greater" THEN seek_to_key_loop(probed, low, mid, key)
             ELSE IF ord = "Less" THEN seek_to_key_loop(probed, mid + 1, high, key)
             ELSE probed
    ELSE seek_to_idx(it, low)

BlockIterator_seek_to_key(it, key) == seek_to_key_loop(it, 0, Len(it.block.offsets), key)

BlockIterator_create_and_seek_to_first(block) ==
    BlockIterator_seek_to_first(BlockIterator_new(block))

BlockIterator_create_and_seek_to_key(block, key) ==
    BlockIterator_seek_to_key(BlockIterator_new(block), key)

\* ------------------------------------------------------------------ table/builder.rs
SsTableBuilder_new(block_size) ==
    [meta |-> <<>>, data |-> <<>>,
     block_builder |-> BlockBuilder_new(block_size), block_size |-> block_size]

finish_block(b) ==
    [b EXCEPT !.block_builder = BlockBuilder_new(b.block_size),
              !.data = @ \o Block_encode(BlockBuilder_build(b.block_builder))]

RECURSIVE SsTableBuilder_add(_, _, _)
SsTableBuilder_add(b, key, value) ==
    LET b1 == IF BlockBuilder_is_empty(b.block_builder)
              THEN [b EXCEPT !.meta = Append(@, [offset |-> Len(b.data), first_key |-> key])]
              ELSE b
        r == BlockBuilder_add(b1.block_builder, key, value)
    IN  IF r.ok
        THEN [b1 EXCEPT !.block_builder = r.builder]
        ELSE SsTableBuilder_add(finish_block(b1), key, value)

\* ------------------------------------------------------------------ table.rs
RECURSIVE encode_block_meta(_)
encode_block_meta(block_meta) ==
    IF block_meta = <<>> THEN <<>>
    ELSE LET meta == Head(block_meta)
         IN  put_u32(meta.offset) \o put_u16(Len(meta.first_key)) \o meta.first_key
                \o encode_block_meta(Tail(block_meta))

\* The SsTable returned by build: the file's bytes, the metas, the meta offset, the id.
SsTableBuilder_build(b, id) ==
    LET b1 == finish_block(b)
        block_meta_offset == Len(b1.data)
    IN  [file |-> b1.data \o encode_block_meta(b1.meta) \o put_u32(block_meta_offset),
         block_metas |-> b1.meta,
         block_meta_offset |-> block_meta_offset,
         id |-> id]

FileObject_read(file, offset, len) == slice(file, offset, offset + len)

SsTable_num_of_blocks(table) == Len(table.block_metas)

\* block_metas[block_idx] panics (index out of bounds) when this holds.
read_block_panics(table, block_idx) == block_idx >= Len(table.block_metas)

SsTable_read_block(table, block_idx) ==
    LET start_offset == table.block_metas[block_idx + 1].offset
        end_offset == IF block_idx + 1 = Len(table.block_metas)
                      THEN table.block_meta_offset
                      ELSE table.block_metas[block_idx + 2].offset
    IN  Block_decode(FileObject_read(table.file, start_offset, end_offset - start_offset))

\* try_get_with((id, block_idx), || read_block(block_idx)) against cache content `cache`.
SsTable_read_block_cached(cache, table, block_idx) ==
    IF <<table.id, block_idx>> \in DOMAIN cache
    THEN cache[<<table.id, block_idx>>]
    ELSE SsTable_read_block(table, block_idx)

\* partition_point(|meta| meta.first_key <= key): the length of the leading run.
SsTable_find_block_idx(table, key) ==
    LET n == Len(table.block_metas)
        i == Cardinality({j \in 1..n :
                 \A x \in 1..j : cmp(table.block_metas[x].first_key, key) # "Greater"})
    IN  IF i = 0 THEN i ELSE i - 1

\* ------------------------------------------------------------------ table/iterator.rs
\* The outcome of a call that panicked.
Panic == [type |-> "panic"]

SsTableIterator_seek_to_first_inner(cache, table) ==
    IF read_block_panics(table, 0) THEN Panic
    ELSE [type |-> "sst", table |-> table, block_idx |-> 0,
          block_iter |-> BlockIterator_create_and_seek_to_first(
                             SsTable_read_block_cached(cache, table, 0))]

SsTableIterator_create_and_seek_to_first(cache, table) ==
    SsTableIterator_seek_to_first_inner(cache, table)

\* A seek that stays in the block find_block_idx chose.
SsTableIterator_seek_in_block(cache, table, key) ==
    LET block_idx == SsTable_find_block_idx(table, key)
    IN  IF read_block_panics(table, block_idx) THEN Panic
        ELSE [type |-> "sst", table |-> table, block_idx |-> block_idx,
              block_iter |-> BlockIterator_create_and_seek_to_key(
                                 SsTable_read_block_cached(cache, table, block_idx), key)]

SsTableIterator_seek_to_key_inner(cache, table, key) ==
    LET block_idx == SsTable_find_block_idx(table, key)
    IN  IF read_block_panics(table, block_idx) THEN Panic
        ELSE LET block_iter == BlockIterator_create_and_seek_to_key(
                                   SsTable_read_block_cached(cache, table, block_idx), key)
             IN  IF ~BlockIterator_is_valid(block_iter)
                    /\ block_idx + 1 < SsTable_num_of_blocks(table)
                 THEN [type |-> "sst", table |-> table, block_idx |-> block_idx + 1,
                       block_iter |-> BlockIterator_create_and_seek_to_first(
                                          SsTable_read_block_cached(cache, table, block_idx + 1))]
                 ELSE [type |-> "sst", table |-> table, block_idx |-> block_idx,
                       block_iter |-> block_iter]

SsTableIterator_create_and_seek_to_key(cache, table, key) ==
    SsTableIterator_seek_to_key_inner(cache, table, key)

SsTableIterator_next(cache, it) ==
    LET block_iter == BlockIterator_next(it.block_iter)
    IN  IF ~BlockIterator_is_valid(block_iter)
           /\ it.block_idx + 1 < SsTable_num_of_blocks(it.table)
        THEN [it EXCEPT !.block_idx = @ + 1,
                        !.block_iter = BlockIterator_create_and_seek_to_first(
                            SsTable_read_block_cached(cache, it.table, it.block_idx + 1))]
        ELSE [it EXCEPT !.block_iter = block_iter]

\* ------------------------------------------------------------------ mem_table.rs
\* A memtable is a function from the keys it holds to their values; the empty
\* value is a tombstone.
MemTable_create == [k \in {} |-> <<>>]

MemTable_put(m, key, value) ==
    [k \in (DOMAIN m) \cup {key} |-> IF k = key THEN value ELSE m[k]]

\* Option<Bytes>: <<>> is None, <<v>> is Some(v).
MemTable_get(m, key) == IF key \in DOMAIN m THEN <<m[key]>> ELSE <<>>

\* The keys of S in ascending order.
RECURSIVE SortedKeys(_)
SortedKeys(S) ==
    IF S = {} THEN <<>>
    ELSE LET lo == CHOOSE k \in S : \A o \in S : cmp(k, o) # "Greater"
         IN  <<lo>> \o SortedKeys(S \ {lo})

RECURSIVE flush_entries(_, _, _)
flush_entries(m, keys, builder) ==
    IF keys = <<>> THEN builder
    ELSE flush_entries(m, Tail(keys), SsTableBuilder_add(builder, Head(keys), m[Head(keys)]))

MemTable_flush(m, builder) == flush_entries(m, SortedKeys(DOMAIN m), builder)

\* Bound<&[u8]>.
Unbounded == [kind |-> "Unbounded", key |-> <<>>]
Included(key) == [kind |-> "Included", key |-> key]
Excluded(key) == [kind |-> "Excluded", key |-> key]

map_bound(bound) == [kind |-> bound.kind, key |-> bound.key]

AboveLower(lower, key) ==
    CASE lower.kind = "Unbounded" -> TRUE
      [] lower.kind = "Included" -> cmp(key, lower.key) # "Less"
      [] lower.kind = "Excluded" -> cmp(key, lower.key) = "Greater"

BelowUpper(upper, key) ==
    CASE upper.kind = "Unbounded" -> TRUE
      [] upper.kind = "Included" -> cmp(key, upper.key) # "Greater"
      [] upper.kind = "Excluded" -> cmp(key, upper.key) = "Less"

MemTable_scan(m, lower, upper) ==
    LET keys == SortedKeys({k \in DOMAIN m : AboveLower(lower, k) /\ BelowUpper(upper, k)})
    IN  [type |-> "mem",
         items |-> [i \in 1..Len(keys) |-> [key |-> keys[i], value |-> m[keys[i]]]],
         index |-> 0]

MemTableIterator_is_valid(it) == it.index < Len(it.items)
MemTableIterator_key(it) ==
    IF MemTableIterator_is_valid(it) THEN it.items[it.index + 1].key ELSE <<>>
MemTableIterator_value(it) ==
    IF MemTableIterator_is_valid(it) THEN it.items[it.index + 1].value ELSE <<>>
MemTableIterator_next(it) ==
    IF MemTableIterator_is_valid(it) THEN [it EXCEPT !.index = @ + 1] ELSE it

\* ------------------------------------------------------------------ tests/iterator_mock.rs
\* MockIterator: a vector of (key, value) pairs and a 0-based index into it.
\* key() and value() index the vector: out of range when the iterator is invalid.
MockIterator_new(data) == [type |-> "mock", data |-> data, index |-> 0]
MockIterator_is_valid(it) == it.index < Len(it.data)
MockIterator_key(it) == it.data[it.index + 1].key
MockIterator_value(it) == it.data[it.index + 1].value
MockIterator_next(it) ==
    IF it.index < Len(it.data) THEN [it EXCEPT !.index = @ + 1] ELSE it

\* ------------------------------------------------------------------ StorageIterator
\* An implementor of StorageIterator whose next returns Err when it is called
\* at index error_when, and otherwise behaves as a MockIterator.
FailingIterator_new(data, error_when) ==
    [type |-> "failing", data |-> data, index |-> 0, error_when |-> error_when]
FailingIterator_next_fails(it) == it.index = it.error_when

\* ------------------------------------------------------------------ iterators/merge_iterator.rs
\* The calls MergeIterator<I> makes on its children through I: StorageIterator.
Child_is_valid(it) ==
    CASE it.type = "sst" -> BlockIterator_is_valid(it.block_iter)
      [] it.type = "mem" -> MemTableIterator_is_valid(it)
      [] it.type \in {"mock", "failing"} -> MockIterator_is_valid(it)

Child_key(it) ==
    CASE it.type = "sst" -> it.block_iter.key
      [] it.type = "mem" -> MemTableIterator_key(it)
      [] it.type \in {"mock", "failing"} -> MockIterator_key(it)

Child_value(it) ==
    CASE it.type = "sst" -> it.block_iter.value
      [] it.type = "mem" -> MemTableIterator_value(it)
      [] it.type \in {"mock", "failing"} -> MockIterator_value(it)

Child_next(cache, it) ==
    CASE it.type = "sst" -> SsTableIterator_next(cache, it)
      [] it.type = "mem" -> MemTableIterator_next(it)
      [] it.type \in {"mock", "failing"} -> MockIterator_next(it)

\* Whether next() of the child returns Err: the block reads of an SsTableIterator
\* (FileObject::read) and the other children of this crate never do.
Child_next_fails(it) == it.type = "failing" /\ FailingIterator_next_fails(it)

\* HeapWrapper(idx, iter); the comparison is reversed so that the max-heap
\* yields the smallest key and, among equal keys, the smallest index.
HeapWrapper(idx, iter) == [idx |-> idx, iter |-> iter]

\* A comparison that, among equal keys, lets the larger index win.
HeapWrapper_partial_cmp_last(x, y) ==
    LET byKey == cmp(Child_key(x.iter), Child_key(y.iter))
        ord == IF byKey # "Equal" THEN byKey
               ELSE IF x.idx > y.idx THEN "Less"
               ELSE IF x.idx < y.idx THEN "Greater" ELSE "Equal"
    IN  IF ord = "Less" THEN "Greater" ELSE IF ord = "Greater" THEN "Less" ELSE "Equal"

HeapWrapper_partial_cmp(x, y) ==
    LET byKey == cmp(Child_key(x.iter), Child_key(y.iter))
        ord == IF byKey # "Equal" THEN byKey
               ELSE IF x.idx < y.idx THEN "Less"
               ELSE IF x.idx > y.idx THEN "Greater" ELSE "Equal"
    IN  IF ord = "Less" THEN "Greater" ELSE IF ord = "Greater" THEN "Less" ELSE "Equal"

\* BinaryHeap::peek: the greatest element of a non-empty heap.
heap_peek(heap) ==
    CHOOSE w \in heap : \A o \in heap : HeapWrapper_partial_cmp(w, o) # "Less"

\* Option<T>: <<>> is None, <<x>> is Some(x).
MergeIterator_create(iters) ==
    IF iters = <<>>
    THEN [type |-> "merge", iters |-> {}, current |-> <<>>]
    ELSE IF \A i \in 1..Len(iters) : ~Child_is_valid(iters[i])
    THEN [type |-> "merge", iters |-> {},
          current |-> <<HeapWrapper(0, iters[Len(iters)])>>]
    ELSE LET heap == {HeapWrapper(i - 1, iters[i]) :
                         i \in {j \in 1..Len(iters) : Child_is_valid(iters[j])}}
             top == heap_peek(heap)
         IN  [type |-> "merge", iters |-> heap \ {top}, current |-> <<top>>]

MergeIterator_is_valid(m) ==
    IF m.current = <<>> THEN FALSE ELSE Child_is_valid(m.current[1].iter)

\* key() and value() unwrap current; callers reach them only behind is_valid().
MergeIterator_key(m) == Child_key(m.current[1].iter)
MergeIterator_value(m) == Child_value(m.current[1].iter)

\* The while-let loop of next: advance every heap top positioned at key.  The
\* heap as the loop leaves it, and whether it left with the error of a child,
\* which it has popped.
RECURSIVE skip_same_key(_, _, _)
skip_same_key(cache, heap, key) ==
    IF heap = {} THEN [iters |-> heap, failed |-> FALSE]
    ELSE LET inner_iter == heap_peek(heap)
         IN  IF Child_key(inner_iter.iter) = key
             THEN IF Child_next_fails(inner_iter.iter)
                  THEN [iters |-> heap \ {inner_iter}, failed |-> TRUE]
                  ELSE LET advanced == Child_next(cache, inner_iter.iter)
                       IN  IF ~Child_is_valid(advanced)
                           THEN skip_same_key(cache, heap \ {inner_iter}, key)
                           ELSE skip_same_key(cache,
                                    (heap \ {inner_iter})
                                        \cup {HeapWrapper(inner_iter.idx, advanced)},
                                    key)
             ELSE [iters |-> heap, failed |-> FALSE]

\* The heap top `top` becomes current; `pushed` takes its place in the heap.
heap_swap(m, heap, top, pushed) ==
    [m EXCEPT !.iters = (heap \ {top}) \cup pushed, !.current = <<top>>]

\* An end of next that never lets the heap top take the place of a valid current.
select_current_keep(m, heap, current) ==
    IF ~Child_is_valid(current.iter) /\ heap # {}
    THEN heap_swap(m, heap, heap_peek(heap), {})
    ELSE [m EXCEPT !.iters = heap, !.current = <<current>>]

\* The end of next, once the loop left `heap` and current advanced to `current`.
select_current(m, heap, current) ==
    IF ~Child_is_valid(current.iter)
    THEN IF heap # {}
         THEN heap_swap(m, heap, heap_peek(heap), {})
         ELSE [m EXCEPT !.iters = heap, !.current = <<current>>]
    ELSE IF heap # {} /\ HeapWrapper_partial_cmp(current, heap_peek(heap)) = "Less"
         THEN heap_swap(m, heap, heap_peek(heap), {current})
         ELSE [m EXCEPT !.iters = heap, !.current = <<current>>]

\* Whether the loop, or current.1.next()? after it, returns an error.
next_fails(m, skipped) == skipped.failed \/ Child_next_fails(m.current[1].iter)

\* next once the loop has left the heap as `skipped`: an error returns at once,
\* with current as it is.
advance_current(cache, m, skipped) ==
    IF next_fails(m, skipped)
    THEN [m EXCEPT !.iters = skipped.iters]
    ELSE select_current(m, skipped.iters,
             HeapWrapper(m.current[1].idx, Child_next(cache, m.current[1].iter)))

\* The MergeIterator after next(); current.unwrap() panics on an iterator
\* created from no input.
MergeIterator_next(cache, m) ==
    IF m.current = <<>> THEN Panic
    ELSE advance_current(cache, m,
             skip_same_key(cache, m.iters, Child_key(m.current[1].iter)))

\* The Result next() returns.
MergeIterator_next_result(cache, m) ==
    IF next_fails(m, skip_same_key(cache, m.iters, Child_key(m.current[1].iter)))
    THEN "Err" ELSE "Ok"

\* ------------------------------------------------------------------ iterators/two_merge_iterator.rs
choose_a(a, b) ==
    IF ~MergeIterator_is_valid(a) THEN FALSE
    ELSE IF ~MergeIterator_is_valid(b) THEN TRUE
    ELSE cmp(MergeIterator_key(a), MergeIterator_key(b)) = "Less"

RECURSIVE skip_b_loop(_, _, _)
skip_b_loop(cache, a, b) ==
    IF MergeIterator_is_valid(b) /\ MergeIterator_key(b) = MergeIterator_key(a)
    THEN skip_b_loop(cache, a, MergeIterator_next(cache, b))
    ELSE b

\* A skip_b that leaves b where it stands.
skip_b_none(cache, a, b) == b

\* skip_b returns the b it leaves behind.
skip_b(cache, a, b) == IF MergeIterator_is_valid(a) THEN skip_b_loop(cache, a, b) ELSE b

\* The iterator with children a and b and the choice between them.
with_choice(a, b) == [type |-> "two", a |-> a, b |-> b, choose_a |-> choose_a(a, b)]

\* skip_b, then choose_a, as create and next end.
skip_b_and_choose(cache, a, b) ==
    IF a = Panic \/ b = Panic THEN Panic ELSE with_choice(a, skip_b(cache, a, b))

TwoMergeIterator_create(cache, a, b) == skip_b_and_choose(cache, a, b)

TwoMergeIterator_value(t) ==
    IF t.choose_a THEN MergeIterator_value(t.a) ELSE MergeIterator_value(t.b)

TwoMergeIterator_key(t) ==
    IF t.choose_a THEN MergeIterator_key(t.a) ELSE MergeIterator_key(t.b)

TwoMergeIterator_is_valid(t) ==
    IF t.choose_a THEN MergeIterator_is_valid(t.a) ELSE MergeIterator_is_valid(t.b)

TwoMergeIterator_next(cache, t) ==
    IF t.choose_a
    THEN skip_b_and_choose(cache, MergeIterator_next(cache, t.a), t.b)
    ELSE skip_b_and_choose(cache, t.a, MergeIterator_next(cache, t.b))

\* ------------------------------------------------------------------ lsm_iterator.rs
LsmIterator_key(l) == TwoMergeIterator_key(l.iter)
LsmIterator_value(l) == TwoMergeIterator_value(l.iter)
LsmIterator_is_valid(l) == l.is_valid

\* next_inner once self.iter.next() left the inner iterator as `iter`.
check_end_bound(l, iter) ==
    IF iter = Panic THEN Panic
    ELSE IF ~TwoMergeIterator_is_valid(iter)
    THEN [l EXCEPT !.iter = iter, !.is_valid = FALSE]
    ELSE [l EXCEPT !.iter = iter,
                   !.is_valid =
                       CASE l.end_bound.kind = "Included" ->
                                cmp(TwoMergeIterator_key(iter), l.end_bound.key) # "Greater"
                         [] l.end_bound.kind = "Excluded" ->
                                cmp(TwoMergeIterator_key(iter), l.end_bound.key) = "Less"
                         [] l.end_bound.kind = "Unbounded" -> @]

next_inner(cache, l) == check_end_bound(l, TwoMergeIterator_next(cache, l.iter))

RECURSIVE move_to_non_delete(_, _)
move_to_non_delete(cache, l) ==
    IF l = Panic THEN Panic
    ELSE IF l.is_valid /\ LsmIterator_value(l) = <<>>
    THEN move_to_non_delete(cache, next_inner(cache, l))
    ELSE l

LsmIterator_new(cache, iter, end_bound) ==
    move_to_non_delete(cache,
        [type |-> "lsm", iter |-> iter, end_bound |-> end_bound,
         is_valid |-> TwoMergeIterator_is_valid(iter)])

LsmIterator_next(cache, l) == move_to_non_delete(cache, next_inner(cache, l))

FusedIterator_new(iter) == [type |-> "fused", iter |-> iter]
FusedIterator_is_valid(f) == LsmIterator_is_valid(f.iter)
FusedIterator_key(f) == LsmIterator_key(f.iter)
FusedIterator_value(f) == LsmIterator_value(f.iter)

\* A next that forwards to the inner iterator whether it is valid or not: what
\* the wrapper would be without its is_valid test.
\* The wrapper around the inner iterator `iter` that a next() left behind.
rewrap(f, iter) == IF iter = Panic THEN Panic ELSE [f EXCEPT !.iter = iter]

FusedIterator_next_unchecked(cache, f) == rewrap(f, LsmIterator_next(cache, f.iter))

\* next returns the iterator after the call, or Panic.
FusedIterator_next(cache, f) ==
    IF FusedIterator_is_valid(f) THEN rewrap(f, LsmIterator_next(cache, f.iter)) ELSE f

\* ------------------------------------------------------------------ lsm_storage.rs
Reverse(seq) == [i \in 1..Len(seq) |-> seq[Len(seq) + 1 - i]]

\* LsmStorageInner::create; memtables are named by their place in `memtables`.
LsmStorageInner_create ==
    [memtable |-> 1, imm_memtables |-> <<>>, l0_sstables |-> <<>>, levels |-> <<>>,
     next_sst_id |-> 1]

\* Result<Option<Bytes>> of get, and the outcome of a call that panicked.
Ok(value) == [kind |-> "Ok", value |-> value]
Panicked == [kind |-> "Panic", value |-> <<>>]

\* The (table, block) pairs a seek to `key` (or to the first entry when
\* to_first) hands to read_block_cached, given the iterator `it` it returned.
seek_loads(table, to_first, key, it) ==
    IF it = Panic THEN {}
    ELSE {[table |-> table, block_idx |-> j] :
             j \in (IF to_first THEN 0 ELSE SsTable_find_block_idx(table, key))..it.block_idx}

\* The cache after try_get_with ran for every pair of `loads`.
cache_insert(cache, loads) ==
    LET keys == {<<l.table.id, l.block_idx>> : l \in loads}
        tableOf(k) == (CHOOSE l \in loads : <<l.table.id, l.block_idx>> = k).table
    IN  [k \in (DOMAIN cache) \cup keys |->
            IF k \in DOMAIN cache THEN cache[k] ELSE SsTable_read_block(tableOf(k), k[2])]

\* The first index of `iters` that panicked, or 0.
first_panic(iters) ==
    IF \E i \in 1..Len(iters) : iters[i] = Panic
    THEN CHOOSE i \in 1..Len(iters) : iters[i] = Panic /\ \A j \in 1..(i - 1) : iters[j] # Panic
    ELSE 0

\* The probe of the immutable memtables, newest first: Option<Option-of-value>.
imm_probe(mems, snapshot, key) ==
    LET rev == Reverse(snapshot.imm_memtables)
        hits == {i \in 1..Len(rev) : MemTable_get(mems[rev[i]], key) # <<>>}
    IN  IF hits = {} THEN <<>>
        ELSE MemTable_get(mems[rev[CHOOSE i \in hits : \A j \in hits : i <= j]], key)

get_table_iters(cache, snapshot, key) ==
    LET rev == Reverse(snapshot.l0_sstables)
    IN  [i \in 1..Len(rev) |-> SsTableIterator_create_and_seek_to_key(cache, rev[i], key)]

\* get after the snapshot was cloned: the probes, against the memtables' content `mems`.
LsmStorage_get(cache, mems, snapshot, key) ==
    LET active == MemTable_get(mems[snapshot.memtable], key)
        imm == imm_probe(mems, snapshot, key)
        iters == get_table_iters(cache, snapshot, key)
    IN  IF active # <<>>
        THEN IF active[1] = <<>> THEN Ok(<<>>) ELSE Ok(active)
        ELSE IF imm # <<>>
        THEN IF imm[1] = <<>> THEN Ok(<<>>) ELSE Ok(imm)
        ELSE IF first_panic(iters) # 0 THEN Panicked
        ELSE LET merge_iter == MergeIterator_create(iters)
             IN  IF MergeIterator_is_valid(merge_iter)
                 THEN Ok(<<MergeIterator_value(merge_iter)>>)
                 ELSE Ok(<<>>)

\* The blocks get reads through the cache: none when a memtable answers.
get_loads(cache, mems, snapshot, key) ==
    LET rev == Reverse(snapshot.l0_sstables)
        iters == get_table_iters(cache, snapshot, key)
        upto == IF first_panic(iters) # 0 THEN first_panic(iters) - 1 ELSE Len(iters)
    IN  IF MemTable_get(mems[snapshot.memtable], key) # <<>> \/ imm_probe(mems, snapshot, key) # <<>>
        THEN {}
        ELSE UNION {seek_loads(rev[i], FALSE, key, iters[i]) : i \in 1..upto}

\* The Excluded arm: an iterator that landed on the bound itself advances once.
skip_excluded(cache, iter, key) ==
    IF iter = Panic THEN Panic
    ELSE IF Child_is_valid(iter) /\ Child_key(iter) = key
    THEN SsTableIterator_next(cache, iter)
    ELSE iter

scan_table_iter(cache, table, lower) ==
    CASE lower.kind = "Included" ->
             SsTableIterator_create_and_seek_to_key(cache, table, lower.key)
      [] lower.kind = "Excluded" ->
             skip_excluded(cache,
                 SsTableIterator_create_and_seek_to_key(cache, table, lower.key), lower.key)
      [] lower.kind = "Unbounded" ->
             SsTableIterator_create_and_seek_to_first(cache, table)

scan_table_iters(cache, snapshot, lower) ==
    LET rev == Reverse(snapshot.l0_sstables)
    IN  [i \in 1..Len(rev) |-> scan_table_iter(cache, rev[i], lower)]

\* The memtable iterators of scan: the active memtable, then the immutables
\* newest first.
scan_memtable_iters(mems, snapshot, lower, upper) ==
    LET rev == Reverse(snapshot.imm_memtables)
    IN  <<MemTable_scan(mems[snapshot.memtable], lower, upper)>>
            \o [i \in 1..Len(rev) |-> MemTable_scan(mems[rev[i]], lower, upper)]

\* The end of scan: the two merges, the bound and the wrapper.
scan_merge(cache, memtable_iters, table_iters, upper) ==
    IF first_panic(table_iters) # 0 THEN Panic
    ELSE FusedIterator_new(
             LsmIterator_new(cache,
                 TwoMergeIterator_create(cache,
                     MergeIterator_create(memtable_iters),
                     MergeIterator_create(table_iters)),
                 map_bound(upper)))

\* scan after the snapshot was cloned: the FusedIterator it returns, or Panic.
LsmStorage_scan(cache, mems, snapshot, lower, upper) ==
    scan_merge(cache, scan_memtable_iters(mems, snapshot, lower, upper),
               scan_table_iters(cache, snapshot, lower), upper)

\* The SsTableIterators a scan cursor still holds (MergeIterator b: heap and current).
cursor_table_iters(f) ==
    LET b == f.iter.iter.b
    IN  {w.iter : w \in b.iters} \cup (IF b.current = <<>> THEN {} ELSE {b.current[1].iter})

\* The block an iterator over `table` stands in, in cursor f; an iterator the
\* merge dropped was invalid, that is, past the table's last block.
cursor_block_idx(f, table) ==
    LET its == {it \in cursor_table_iters(f) : it.table = table}
    IN  IF its = {} THEN SsTable_num_of_blocks(table) - 1
        ELSE (CHOOSE it \in its : TRUE).block_idx

\* The blocks scan reads through the cache while it builds cursor f.
scan_loads(cache, snapshot, lower, f) ==
    LET rev == Reverse(snapshot.l0_sstables)
        iters == scan_table_iters(cache, snapshot, lower)
    IN  IF f = Panic
        THEN UNION {seek_loads(rev[i], lower.kind = "Unbounded", lower.key, iters[i]) :
                       i \in 1..(first_panic(iters) - 1)}
        ELSE UNION {{[table |-> rev[i], block_idx |-> j] :
                        j \in (IF lower.kind = "Unbounded" THEN 0
                               ELSE SsTable_find_block_idx(rev[i], lower.key))
                                  ..cursor_block_idx(f, rev[i])} :
                    i \in 1..Len(rev)}

\* The blocks a next() that took cursor f to cursor g read through the cache.
next_loads(f, g) ==
    IF g = Panic THEN {}
    ELSE UNION {{[table |-> it.table, block_idx |-> j] :
                    j \in (it.block_idx + 1)..cursor_block_idx(g, it.table)} :
                it \in cursor_table_iters(f)}

\* ------------------------------------------------------------------ state
VARIABLES
    inner,        \* the published Arc<LsmStorageInner> behind the RwLock
    memtables,    \* the content of every MemTable created so far, by name
    flush_lock,   \* Mutex<()>: <<>> when free, <<t>> when thread t holds it
    block_cache,  \* BlockCache: (sst_id, block_idx) -> Block
    pc,           \* where each thread is in the call it is making
    frame,        \* the locals of that call
    ret,          \* what each thread's last completed call returned
    cursor,       \* the scan cursor of the scanning thread: <<>> or <<iterator>>
    scan_bounds,  \* the bounds that cursor was created with
    emitted,      \* the entries the cursor has stood on while valid
    after_end,    \* whether next() was called on the cursor while it was invalid
    latest,       \* history: the last value written for each key written so far
    writer,       \* history: the thread that made that write
    synced,       \* history: keys whose last write returned before a sync returned
    nwrites,      \* history: put/delete calls so far
    nsyncs,       \* history: sync calls so far
    ngets         \* history: get calls so far

vars == <<inner, memtables, flush_lock, block_cache, pc, frame, ret, cursor,
          scan_bounds, emitted, after_end, latest, writer, synced, nwrites, nsyncs,
          ngets>>

storeVars == <<inner, memtables, flush_lock>>
scanVars == <<cursor, scan_bounds, emitted, after_end>>
historyVars == <<latest, writer, synced, nwrites>>
countVars == <<nsyncs, ngets>>

NoFrame == [op |-> "none"]
NoRet == [op |-> "none"]

\* LsmStorage::open
Init ==
    /\ inner = LsmStorageInner_create
    /\ memtables = <<MemTable_create>>
    /\ flush_lock = <<>>
    /\ block_cache = [k \in {} |-> <<>>]
    /\ pc = [t \in Threads |-> "idle"]
    /\ frame = [t \in Threads |-> NoFrame]
    /\ ret = [t \in Threads |-> NoRet]
    /\ cursor = <<>>
    /\ scan_bounds = [lower |-> Unbounded, upper |-> Unbounded]
    /\ emitted = <<>>
    /\ after_end = FALSE
    /\ latest = [k \in {} |-> <<>>]
    /\ writer = [k \in {} |-> ""]
    /\ synced = {}
    /\ nwrites = 0
    /\ nsyncs = 0
    /\ ngets = 0

\* A write that lands in the memtable a sync is flushing, when there is one:
\* put with a reference to the memtable taken before the rotation.
write_stale(t, key, value, op) ==
    /\ pc[t] = "idle"
    /\ nwrites < MaxWrites
    /\ memtables' = [memtables EXCEPT
                        ![IF inner.imm_memtables = <<>> THEN inner.memtable
                          ELSE inner.imm_memtables[1]] = MemTable_put(@, key, value)]
    /\ ret' = [ret EXCEPT ![t] = [op |-> op, result |-> "Ok"]]
    /\ latest' = MemTable_put(latest, key, value)
    /\ writer' = [k \in (DOMAIN writer) \cup {key} |-> IF k = key THEN t ELSE writer[k]]
    /\ synced' = synced \ {key}
    /\ nwrites' = nwrites + 1
    /\ frame' = [u \in Threads |->
                    IF pc[u] = "get" /\ frame[u].key = key
                    THEN [frame[u] EXCEPT !.clean = FALSE]
                    ELSE frame[u]]
    /\ UNCHANGED <<inner, flush_lock, block_cache, pc>>
    /\ UNCHANGED scanVars
    /\ UNCHANGED countVars

\* A write of `value` for `key` into the active memtable, under the read lock.
write(t, key, value, op) ==
    /\ pc[t] = "idle"
    /\ nwrites < MaxWrites
    /\ memtables' = [memtables EXCEPT ![inner.memtable] = MemTable_put(@, key, value)]
    /\ ret' = [ret EXCEPT ![t] = [op |-> op, result |-> "Ok"]]
    /\ latest' = MemTable_put(latest, key, value)
    /\ writer' = [k \in (DOMAIN writer) \cup {key} |-> IF k = key THEN t ELSE writer[k]]
    /\ synced' = synced \ {key}
    /\ nwrites' = nwrites + 1
    /\ frame' = [u \in Threads |->
                    IF pc[u] = "get" /\ frame[u].key = key
                    THEN [frame[u] EXCEPT !.clean = FALSE]
                    ELSE frame[u]]
    /\ UNCHANGED <<inner, flush_lock, block_cache, pc>>
    /\ UNCHANGED scanVars
    /\ UNCHANGED countVars

put(t, key, value) == write(t, key, value, "put")

delete(t, key) == write(t, key, <<>>, "delete")

\* get, first half: clone the snapshot under the read lock.
get_snapshot(t, key) ==
    /\ pc[t] = "idle"
    /\ ngets < MaxGets
    /\ ngets' = ngets + 1
    /\ pc' = [pc EXCEPT ![t] = "get"]
    /\ frame' = [frame EXCEPT ![t] =
                    [op |-> "get", key |-> key, snapshot |-> inner,
                     expect |-> MemTable_get(latest, key),
                     synced |-> key \in synced,
                     own |-> key \in DOMAIN writer /\ writer[key] = t,
                     clean |-> TRUE]]
    /\ UNCHANGED <<block_cache, ret, nsyncs>>
    /\ UNCHANGED storeVars
    /\ UNCHANGED scanVars
    /\ UNCHANGED historyVars

\* get, second half: the probes against the snapshot.
get_probe(t) ==
    /\ pc[t] = "get"
    /\ \E f \in {frame[t]},
          result \in {LsmStorage_get(block_cache, memtables, frame[t].snapshot, frame[t].key)} :
           /\ ret' = [ret EXCEPT ![t] =
                         [op |-> "get", key |-> f.key, result |-> result,
                          expect |-> f.expect, synced |-> f.synced, own |-> f.own,
                          clean |-> f.clean]]
           /\ pc' = [pc EXCEPT ![t] = IF result = Panicked THEN "panicked" ELSE "idle"]
           /\ block_cache' = cache_insert(block_cache,
                                 get_loads(block_cache, memtables, f.snapshot, f.key))
    /\ frame' = [frame EXCEPT ![t] = NoFrame]
    /\ UNCHANGED countVars
    /\ UNCHANGED storeVars
    /\ UNCHANGED scanVars
    /\ UNCHANGED historyVars

\* sync is called and waits for the flush mutex.
sync_call(t) ==
    /\ pc[t] = "idle"
    /\ nsyncs < MaxSyncs
    /\ nsyncs' = nsyncs + 1
    /\ pc' = [pc EXCEPT ![t] = "sync_lock"]
    /\ UNCHANGED <<block_cache, frame, ret, ngets>>
    /\ UNCHANGED storeVars
    /\ UNCHANGED scanVars
    /\ UNCHANGED historyVars

\* A lock that is granted whoever holds it: sync without its flush mutex.
mutex_free_broken(lock) == TRUE

\* Mutex::lock succeeds only on a free mutex.
mutex_free(lock) == lock = <<>>

\* A sync that goes on to rotate without taking the flush mutex.
sync_lock_unheld(t) ==
    /\ pc[t] = "sync_lock"
    /\ pc' = [pc EXCEPT ![t] = "sync_rotate"]
    /\ UNCHANGED <<inner, memtables, flush_lock, block_cache, frame, ret>>
    /\ UNCHANGED countVars
    /\ UNCHANGED scanVars
    /\ UNCHANGED historyVars

sync_lock(t) ==
    /\ pc[t] = "sync_lock"
    /\ mutex_free(flush_lock)
    /\ flush_lock' = <<t>>
    /\ pc' = [pc EXCEPT ![t] = "sync_rotate"]
    /\ UNCHANGED <<inner, memtables, block_cache, frame, ret>>
    /\ UNCHANGED countVars
    /\ UNCHANGED scanVars
    /\ UNCHANGED historyVars

\* A rotation that pushes the active memtable to the immutable list and keeps
\* it active.
sync_rotate_shared(t) ==
    /\ pc[t] = "sync_rotate"
    /\ inner' = [inner EXCEPT !.imm_memtables = Append(@, inner.memtable)]
    /\ frame' = [frame EXCEPT ![t] =
                    [op |-> "sync", flush_memtable |-> inner.memtable,
                     sst_id |-> inner.next_sst_id]]
    /\ pc' = [pc EXCEPT ![t] = "sync_build"]
    /\ UNCHANGED <<memtables, flush_lock, block_cache, ret>>
    /\ UNCHANGED countVars
    /\ UNCHANGED scanVars
    /\ UNCHANGED historyVars

\* Under the write lock: move the active memtable to the immutable list.
sync_rotate(t) ==
    /\ pc[t] = "sync_rotate"
    /\ memtables' = Append(memtables, MemTable_create)
    /\ inner' = [inner EXCEPT !.memtable = Len(memtables) + 1,
                              !.imm_memtables = Append(@, inner.memtable)]
    /\ frame' = [frame EXCEPT ![t] =
                    [op |-> "sync", flush_memtable |-> inner.memtable,
                     sst_id |-> inner.next_sst_id]]
    /\ pc' = [pc EXCEPT ![t] = "sync_build"]
    /\ UNCHANGED <<flush_lock, block_cache, ret>>
    /\ UNCHANGED countVars
    /\ UNCHANGED scanVars
    /\ UNCHANGED historyVars

\* Outside the write lock: flush the rotated memtable into an SST.
sync_build(t) ==
    /\ pc[t] = "sync_build"
    /\ frame' = [frame EXCEPT ![t] =
                    [op |-> "sync", flush_memtable |-> frame[t].flush_memtable,
                     sst_id |-> frame[t].sst_id,
                     sst |-> SsTableBuilder_build(
                                 MemTable_flush(memtables[frame[t].flush_memtable],
                                                SsTableBuilder_new(SYNC_BLOCK_SIZE)),
                                 frame[t].sst_id)]]
    /\ pc' = [pc EXCEPT ![t] = "sync_publish"]
    /\ UNCHANGED <<block_cache, ret>>
    /\ UNCHANGED countVars
    /\ UNCHANGED storeVars
    /\ UNCHANGED scanVars
    /\ UNCHANGED historyVars

\* A pop that leaves the vector as it is.
vec_keep(v) == v

\* Vec::pop: drops the last element, if any.
vec_pop(v) == IF v = <<>> THEN v ELSE SubSeq(v, 1, Len(v) - 1)

\* A publication that leaves next_sst_id as it is.
sync_publish_same_id(t) ==
    /\ pc[t] = "sync_publish"
    /\ inner' = [inner EXCEPT !.imm_memtables = vec_pop(@),
                              !.l0_sstables = Append(@, frame[t].sst)]
    /\ pc' = [pc EXCEPT ![t] = "sync_return"]
    /\ UNCHANGED <<memtables, flush_lock, block_cache, frame, ret>>
    /\ UNCHANGED countVars
    /\ UNCHANGED scanVars
    /\ UNCHANGED historyVars

\* A publication that changes the published record in place: whoever holds a
\* reference to it sees the change.
sync_publish_in_place(t) ==
    /\ pc[t] = "sync_publish"
    /\ inner' = [inner EXCEPT !.imm_memtables = vec_pop(@),
                              !.l0_sstables = Append(@, frame[t].sst),
                              !.next_sst_id = @ + 1]
    /\ pc' = [pc EXCEPT ![t] = "sync_return"]
    /\ frame' = [u \in Threads |->
                    IF pc[u] = "get" /\ frame[u].snapshot = inner
                    THEN [frame[u] EXCEPT !.snapshot = inner']
                    ELSE frame[u]]
    /\ UNCHANGED <<memtables, flush_lock, block_cache, ret>>
    /\ UNCHANGED countVars
    /\ UNCHANGED scanVars
    /\ UNCHANGED historyVars

\* Under the write lock: drop the immutable memtable and publish the SST.
sync_publish(t) ==
    /\ pc[t] = "sync_publish"
    /\ inner' = [inner EXCEPT !.imm_memtables = vec_pop(@),
                              !.l0_sstables = Append(@, frame[t].sst),
                              !.next_sst_id = @ + 1]
    /\ pc' = [pc EXCEPT ![t] = "sync_return"]
    /\ UNCHANGED <<memtables, flush_lock, block_cache, frame, ret>>
    /\ UNCHANGED countVars
    /\ UNCHANGED scanVars
    /\ UNCHANGED historyVars

\* sync returns: the flush mutex guard is dropped.
sync_return(t) ==
    /\ pc[t] = "sync_return"
    /\ flush_lock' = <<>>
    /\ pc' = [pc EXCEPT ![t] = "idle"]
    /\ frame' = [frame EXCEPT ![t] = NoFrame]
    /\ ret' = [ret EXCEPT ![t] = [op |-> "sync", result |-> "Ok"]]
    /\ synced' = DOMAIN latest
    /\ UNCHANGED <<inner, memtables, block_cache, latest, writer, nwrites>>
    /\ UNCHANGED countVars
    /\ UNCHANGED scanVars

\* scan: the cursor, and the entry it stands on if it is valid.
cursor_entry(f) ==
    IF f # Panic /\ FusedIterator_is_valid(f)
    THEN <<[key |-> FusedIterator_key(f), value |-> FusedIterator_value(f)]>>
    ELSE <<>>

scan(t, lower, upper) ==
    /\ pc[t] = "idle"
    /\ cursor = <<>>
    /\ \E f \in {LsmStorage_scan(block_cache, memtables, inner, lower, upper)} :
           /\ cursor' = <<f>>
           /\ emitted' = cursor_entry(f)
           /\ block_cache' = cache_insert(block_cache, scan_loads(block_cache, inner, lower, f))
           /\ pc' = [pc EXCEPT ![t] = IF f = Panic THEN "panicked" ELSE "idle"]
    /\ scan_bounds' = [lower |-> lower, upper |-> upper]
    /\ UNCHANGED <<frame, ret, after_end>>
    /\ UNCHANGED countVars
    /\ UNCHANGED storeVars
    /\ UNCHANGED historyVars

\* The caller calls next() on the cursor, whether it is valid or not.
scan_next(t) ==
    /\ pc[t] = "idle"
    /\ cursor # <<>>
    /\ \E f \in {FusedIterator_next(block_cache, cursor[1])} :
           /\ cursor' = <<f>>
           /\ emitted' = emitted \o cursor_entry(f)
           /\ block_cache' = cache_insert(block_cache, next_loads(cursor[1], f))
           /\ pc' = [pc EXCEPT ![t] = IF f = Panic THEN "panicked" ELSE "idle"]
    /\ after_end' = (after_end \/ ~FusedIterator_is_valid(cursor[1]))
    /\ UNCHANGED <<scan_bounds, frame, ret>>
    /\ UNCHANGED countVars
    /\ UNCHANGED storeVars
    /\ UNCHANGED historyVars

Bounds == {Unbounded} \cup {Included(k) : k \in Keys} \cup {Excluded(k) : k \in Keys}

\* The ranges a caller scans: the lower bound does not lie above the upper one.
Ranges ==
    {r \in [lower : Bounds, upper : Bounds] :
        \/ r.lower = Unbounded
        \/ r.upper = Unbounded
        \/ cmp(r.lower.key, r.upper.key) = "Less"
        \/ /\ r.lower.key = r.upper.key
           /\ ~(r.lower.kind = "Excluded" /\ r.upper.kind = "Excluded")}

\* Threads calling put, delete, get and sync concurrently.
Next ==
    \E t \in Threads :
        \/ \E k \in Keys, v \in Values : put(t, k, v)
        \/ \E k \in Keys : delete(t, k)
        \/ \E k \in Keys : get_snapshot(t, k)
        \/ get_probe(t)
        \/ sync_call(t)
        \/ sync_lock(t)
        \/ sync_rotate(t)
        \/ sync_build(t)
        \/ sync_publish(t)
        \/ sync_return(t)

Spec == Init /\ [][Next]_vars

\* One thread calling put, delete and sync, then scanning.
NextScan ==
    \E t \in ScanThreads :
        \/ cursor = <<>> /\ \E k \in Keys, v \in Values : put(t, k, v)
        \/ cursor = <<>> /\ \E k \in Keys : delete(t, k)
        \/ cursor = <<>> /\ sync_call(t)
        \/ sync_lock(t)
        \/ sync_rotate(t)
        \/ sync_build(t)
        \/ sync_publish(t)
        \/ sync_return(t)
        \/ \E r \in Ranges : scan(t, r.lower, r.upper)
        \/ scan_next(t)

SpecScan == Init /\ [][NextScan]_vars

\* Threads calling put, delete and sync concurrently.
NextFlush ==
    \E t \in Threads :
        \/ \E k \in Keys, v \in Values : put(t, k, v)
        \/ \E k \in Keys : delete(t, k)
        \/ sync_call(t)
        \/ sync_lock(t)
        \/ sync_rotate(t)
        \/ sync_build(t)
        \/ sync_publish(t)
        \/ sync_return(t)

SpecFlush == Init /\ [][NextFlush]_vars

\* ------------------------------------------------------------------ properties
\* A get that has returned to thread t and that no write to its key overlapped.
CleanGet(t) == ret[t].op = "get" /\ ret[t].clean

\* The last write to the key of t's get, when get was called, was a put.
ExpectsValue(t) == ret[t].expect # <<>> /\ ret[t].expect[1] # <<>>

\* Writes made while one thread reads.
MaxReaderWrites == 1

\* One thread calling get, then scan, while the others call put, delete and sync.
NextReader ==
    \/ \E t \in ScanThreads :
           \/ \E k \in Keys : get_snapshot(t, k)
           \/ get_probe(t)
           \/ ngets = MaxGets /\ scan(t, Unbounded, Unbounded)
    \/ \E t \in Threads \ ScanThreads :
           \/ nwrites < MaxReaderWrites /\ \E k \in Keys, v \in Values : put(t, k, v)
           \/ nwrites < MaxReaderWrites /\ \E k \in Keys : delete(t, k)
           \/ sync_call(t)
           \/ sync_lock(t)
           \/ sync_rotate(t)
           \/ sync_build(t)
           \/ sync_publish(t)
           \/ sync_return(t)

SpecReader == Init /\ [][NextReader]_vars

\* The positions of a thread in an operation at which it waits for nothing: in
\* get after its snapshot, in sync once it holds the flush mutex.
Running == {"get", "sync_rotate", "sync_build", "sync_publish", "sync_return"}

\* Thread t leaves such a position: the step of get_probe, sync_rotate,
\* sync_build, sync_publish or sync_return that it takes there.
Proceed(t) ==
    /\ pc[t] \in Running
    /\ \E p \in Running \cup {"idle", "panicked"} :
           /\ p # pc[t]
           /\ pc' = [pc EXCEPT ![t] = p]

\* Thread t is granted the flush mutex it waits for.
Granted(t) ==
    /\ pc[t] = "sync_lock"
    /\ mutex_free(flush_lock)
    /\ pc' = [pc EXCEPT ![t] = "sync_rotate"]

\* Every thread calling sync, one of them also get and scan, the others also put
\* and delete.
NextLive ==
    \/ \E t \in Threads :
           \/ sync_call(t)
           \/ sync_lock(t)
           \/ sync_rotate(t)
           \/ sync_build(t)
           \/ sync_publish(t)
           \/ sync_return(t)
    \/ \E t \in Threads \ ScanThreads :
           \/ nwrites < MaxReaderWrites /\ \E k \in Keys, v \in Values : put(t, k, v)
           \/ nwrites < MaxReaderWrites /\ \E k \in Keys : delete(t, k)
    \/ \E t \in ScanThreads :
           \/ \E k \in Keys : get_snapshot(t, k)
           \/ get_probe(t)
           \/ ngets = MaxGets /\ scan(t, Unbounded, Unbounded)

\* Fair scheduling: a thread that can go on does, and the flush mutex, which
\* parking_lot hands over fairly in the end, is not withheld for ever from a
\* thread that finds it free again and again.
SpecLive ==
    /\ Init
    /\ [][NextLive]_vars
    /\ \A t \in Threads : WF_pc(Proceed(t)) /\ SF_pc(Granted(t))

\* C1: flush safety.  A get(k) called after a sync returned, where the last
\* write to k is a put(k, v) that returned before that sync returned and no
\* write to k ran during the get, returns v.
C1_FlushSafety ==
    \A t \in Threads :
        (CleanGet(t) /\ ret[t].synced /\ ExpectsValue(t))
            => ret[t].result = Ok(ret[t].expect)

\* C2: tombstone hiding on get.  A get(k) that returns, where the last write
\* to k is a delete, returns absent, wherever the tombstone lives.
C2_TombstoneHidden ==
    \A t \in Threads :
        (CleanGet(t) /\ ret[t].expect = <<<<>>>> /\ ret[t].result.kind = "Ok")
            => ret[t].result = Ok(<<>>)

\* C3: get returns the latest value.  A get(k) where the last write to k is
\* put(k, v) returns v, whatever older values or tombstones of k lie below.
C3_GetLatest ==
    \A t \in Threads :
        (CleanGet(t) /\ ExpectsValue(t)) => ret[t].result = Ok(ret[t].expect)

\* C4: a get(k) that returns, for a key k no put or delete ever targeted,
\* returns absent.
C4_NeverWrittenAbsent ==
    \A t \in Threads :
        (CleanGet(t) /\ ret[t].expect = <<>> /\ ret[t].result.kind = "Ok")
            => ret[t].result = Ok(<<>>)

\* The live view of a range: the keys in it whose last write is a put, ascending,
\* each with that value.
LiveView(lower, upper) ==
    LET keys == SortedKeys({k \in DOMAIN latest :
                    latest[k] # <<>> /\ AboveLower(lower, k) /\ BelowUpper(upper, k)})
    IN  [i \in 1..Len(keys) |-> [key |-> keys[i], value |-> latest[keys[i]]]]

IsPrefix(p, q) == Len(p) <= Len(q) /\ p = SubSeq(q, 1, Len(p))

\* C5: scan yields exactly the live view.  scan returns a cursor; the entries
\* it stands on are, in order, the live view of the range, and when it ends it
\* has stood on all of them.
C5_ScanLiveView ==
    cursor # <<>> =>
        /\ cursor[1] # Panic
        /\ IsPrefix(emitted, LiveView(scan_bounds.lower, scan_bounds.upper))
        /\ ~FusedIterator_is_valid(cursor[1])
              => emitted = LiveView(scan_bounds.lower, scan_bounds.upper)

\* C6: scan upper bound.  At every position at which the cursor is valid, the
\* first one included, its key lies within the upper bound.
C6_ScanUpperBound ==
    (cursor # <<>> /\ cursor[1] # Panic /\ FusedIterator_is_valid(cursor[1]))
        => BelowUpper(scan_bounds.upper, FusedIterator_key(cursor[1]))

\* C7: scan lower bound.  The cursor stands on no key below the lower bound
\* (with Excluded(k), not on k); with Included(k), k live and within the upper
\* bound, scan returns a cursor that stands on k first.
C7_ScanLowerBound ==
    cursor # <<>> =>
        /\ \A i \in 1..Len(emitted) : AboveLower(scan_bounds.lower, emitted[i].key)
        /\ (/\ scan_bounds.lower.kind = "Included"
            /\ BelowUpper(scan_bounds.upper, scan_bounds.lower.key)
            /\ scan_bounds.lower.key \in DOMAIN latest
            /\ latest[scan_bounds.lower.key] # <<>>)
              => (emitted # <<>> /\ emitted[1].key = scan_bounds.lower.key)

\* C8: the cursor is safe after the end.  Once the cursor scan returned is
\* invalid, a step (a further next() among them) leaves it as it is: invalid,
\* not panicked, every inner iterator where it was.
C8_FusedAfterEnd ==
    [][(cursor # <<>> /\ cursor[1] # Panic /\ ~FusedIterator_is_valid(cursor[1]))
          => cursor' = cursor]_vars

\* next() was called on an invalid cursor, which is still there.
C8_Witness ==
    /\ cursor # <<>>
    /\ cursor[1] # Panic
    /\ ~FusedIterator_is_valid(cursor[1])
    /\ after_end
    /\ emitted # <<>>

\* C9: read-your-writes.  A get(k) by the thread whose put(k, v) was the last
\* write to k, with no write to k during the get, returns v.
C9_ReadYourWrites ==
    \A t \in Threads :
        (CleanGet(t) /\ ret[t].own /\ ExpectsValue(t))
            => ret[t].result = Ok(ret[t].expect)

\* Thread t is inside sync, between acquiring the flush mutex and returning.
InSync(t) == pc[t] \in {"sync_rotate", "sync_build", "sync_publish", "sync_return"}

\* C10: flush serialization.  No two threads are inside sync at once, and a
\* sync about to rotate finds no rotated memtable still waiting for its SST.
C10_FlushSerialization ==
    /\ \A t, u \in Threads : (InSync(t) /\ InSync(u)) => t = u
    /\ \A t \in Threads : pc[t] = "sync_rotate" => inner.imm_memtables = <<>>

\* One thread is building its SST while another waits for the flush mutex.
C10_Witness ==
    \E t, u \in Threads : t # u /\ pc[t] = "sync_build" /\ pc[u] = "sync_lock"

\* ------------------------------------------------------------------ flush
\* The entries of a block, in index order, as a BlockIterator reads them.
block_entries(block) ==
    [i \in 1..Len(block.offsets) |->
        LET it == seek_to_idx(BlockIterator_new(block), i - 1)
        IN  [key |-> it.key, value |-> it.value]]

\* The entries of blocks from..n-1 of an SST, in block order.
RECURSIVE sst_entries_from(_, _)
sst_entries_from(table, from) ==
    IF from >= SsTable_num_of_blocks(table) THEN <<>>
    ELSE block_entries(SsTable_read_block(table, from)) \o sst_entries_from(table, from + 1)

sst_entries(table) == sst_entries_from(table, 0)

\* The entries of a memtable in ascending key order.
memtable_entries(m) ==
    LET keys == SortedKeys(DOMAIN m)
    IN  [i \in 1..Len(keys) |-> [key |-> keys[i], value |-> m[keys[i]]]]

\* Thread t's sync has rotated the memtable and has not yet published the SST.
Flushing(t) == pc[t] \in {"sync_build", "sync_publish"}

\* C11: writers are not blocked by flush.  While a sync is between rotation
\* and publication, a put or delete of any key by an idle thread can take
\* place; such a write leaves the memtable being flushed as it was and lands in
\* the active memtable, which is another one; and the SST the sync is about to
\* publish holds exactly the entries of the memtable it flushes.
C11_WritersNotBlocked ==
    /\ [](\A t \in Threads : Flushing(t) =>
            /\ inner.memtable # frame[t].flush_memtable
            /\ \A u \in Threads \ {t} : (pc[u] = "idle" /\ nwrites < MaxWrites) =>
                   \A k \in Keys : /\ ENABLED delete(u, k)
                                   /\ \A v \in Values : ENABLED put(u, k, v)
            /\ pc[t] = "sync_publish" =>
                   sst_entries(frame[t].sst) =
                       memtable_entries(memtables[frame[t].flush_memtable]))
    /\ [][\A t \in Threads, u \in Threads, k \in Keys, v \in Values \cup {<<>>} :
            (Flushing(t) /\ write(u, k, v, IF v = <<>> THEN "delete" ELSE "put")) =>
                /\ memtables'[frame[t].flush_memtable] = memtables[frame[t].flush_memtable]
                /\ MemTable_get(memtables'[inner.memtable], k) = <<v>>
                /\ pc'[u] = "idle"]_vars

\* A sync is about to publish its SST while the active memtable already holds a
\* write made after the rotation, which the SST does not hold.
C11_Witness ==
    \E t \in Threads :
        /\ pc[t] = "sync_publish"
        /\ \E k \in DOMAIN memtables[inner.memtable] :
               \A i \in 1..Len(sst_entries(frame[t].sst)) :
                   sst_entries(frame[t].sst)[i].key # k

\* C12: every built SST has at least one block.  Every SST that a sync has
\* built, and every SST in L0, has num_of_blocks() >= 1.
C12_BuiltSstHasBlock ==
    /\ \A t \in Threads :
           pc[t] = "sync_publish" => SsTable_num_of_blocks(frame[t].sst) >= 1
    /\ \A i \in 1..Len(inner.l0_sstables) :
           SsTable_num_of_blocks(inner.l0_sstables[i]) >= 1

\* The memtables in the immutable list of the published snapshot.
Immutable(state) == {state.imm_memtables[i] : i \in 1..Len(state.imm_memtables)}

\* C19: sync removes the memtable it flushed.  The publication step of a sync
\* removes from the immutable list the memtable this sync rotated, which is at
\* the front of the list, and adds to L0 the SST this sync built, which holds
\* that memtable's entries; no step drops any other immutable memtable.
C19_RemovesFlushed ==
    [][/\ \A t \in Threads :
              sync_publish(t) =>
                  /\ inner.imm_memtables # <<>>
                  /\ Head(inner.imm_memtables) = frame[t].flush_memtable
                  /\ Immutable(inner') = Immutable(inner) \ {frame[t].flush_memtable}
                  /\ inner'.l0_sstables = Append(inner.l0_sstables, frame[t].sst)
                  /\ sst_entries(frame[t].sst) =
                         memtable_entries(memtables[frame[t].flush_memtable])
       /\ \A m \in Immutable(inner) \ Immutable(inner') :
              \E t \in Threads :
                  /\ pc[t] = "sync_publish"
                  /\ pc'[t] = "sync_return"
                  /\ m = frame[t].flush_memtable]_vars

\* A sync has published: the memtable it rotated held entries, has left the
\* immutable list, and the newest L0 SST is the one built from it.
C19_Witness ==
    \E t \in Threads :
        /\ pc[t] = "sync_return"
        /\ memtables[frame[t].flush_memtable] # MemTable_create
        /\ frame[t].flush_memtable \notin Immutable(inner)
        /\ inner.l0_sstables # <<>>
        /\ inner.l0_sstables[Len(inner.l0_sstables)] = frame[t].sst
        /\ sst_entries(frame[t].sst) = memtable_entries(memtables[frame[t].flush_memtable])

\* C20: a rotated memtable is frozen.  Once sync has moved a memtable from
\* active to the immutable list, no step of any thread changes its content,
\* rotation itself included; hence the SST sync builds from it holds exactly
\* the entries the memtable held at rotation time.
C20_RotatedFrozen ==
    /\ [](\A t \in Threads :
              /\ pc[t] \in {"sync_build", "sync_publish", "sync_return"} =>
                     frame[t].flush_memtable # inner.memtable
              /\ pc[t] = "sync_publish" =>
                     sst_entries(frame[t].sst) =
                         memtable_entries(memtables[frame[t].flush_memtable])
              /\ pc[t] = "sync_return" =>
                     sst_entries(inner.l0_sstables[Len(inner.l0_sstables)]) =
                         memtable_entries(memtables[frame[t].flush_memtable]))
    /\ [][\A i \in DOMAIN memtables :
              (i \in Immutable(inner) \/ i # inner.memtable \/ i # inner'.memtable) =>
                  memtables'[i] = memtables[i]]_vars

\* While a sync is about to publish, another write has replaced, in the new
\* active memtable, the value of a key that the rotated memtable holds.
C20_Witness ==
    \E t \in Threads :
        /\ pc[t] = "sync_publish"
        /\ \E k \in DOMAIN memtables[frame[t].flush_memtable] :
               /\ k \in DOMAIN memtables[inner.memtable]
               /\ memtables[inner.memtable][k] # memtables[frame[t].flush_memtable][k]
               /\ \E i \in 1..Len(sst_entries(frame[t].sst)) :
                      /\ sst_entries(frame[t].sst)[i].key = k
                      /\ sst_entries(frame[t].sst)[i].value =
                             memtables[frame[t].flush_memtable][k]

\* The value of `key` in the first of `tables` (newest first) that holds it.
RECURSIVE sst_lookup(_, _)
sst_lookup(tables, key) ==
    IF tables = <<>> THEN <<>>
    ELSE LET hits == {i \in 1..Len(sst_entries(Head(tables))) :
                         sst_entries(Head(tables))[i].key = key}
         IN  IF hits # {}
             THEN <<sst_entries(Head(tables))[CHOOSE i \in hits : TRUE].value>>
             ELSE sst_lookup(Tail(tables), key)

\* The newest entry the published snapshot holds for `key`: the active
\* memtable, then the immutable memtables and the L0 SSTs from latest to
\* earliest.
RECURSIVE imm_lookup(_, _)
imm_lookup(imms, key) ==
    IF imms = <<>> THEN <<>>
    ELSE IF MemTable_get(memtables[Head(imms)], key) # <<>>
    THEN MemTable_get(memtables[Head(imms)], key)
    ELSE imm_lookup(Tail(imms), key)

StoreView(key) ==
    IF MemTable_get(memtables[inner.memtable], key) # <<>>
    THEN MemTable_get(memtables[inner.memtable], key)
    ELSE IF imm_lookup(Reverse(inner.imm_memtables), key) # <<>>
    THEN imm_lookup(Reverse(inner.imm_memtables), key)
    ELSE sst_lookup(Reverse(inner.l0_sstables), key)

\* What a get of `key` answers when the last write to it is the one in `latest`.
Answer(key) ==
    IF key \in DOMAIN latest /\ latest[key] # <<>> THEN Ok(<<latest[key]>>) ELSE Ok(<<>>)

\* C21: no transient loss during flush.  In every reachable state, before a
\* rotation, between rotation and publication and after publication, the
\* newest entry the published snapshot holds for a key (active memtable,
\* immutable memtables, L0 SSTs) is the last completed write of that key; a
\* memtable leaves the immutable list in the very step that adds an SST to L0;
\* and a get of a key on the published snapshot answers the same at each of
\* these points: the last written value, or nothing for a deleted or never
\* written key.
C21_NoTransientLoss ==
    /\ [](\A k \in Keys :
              /\ StoreView(k) = MemTable_get(latest, k)
              /\ LsmStorage_get(block_cache, memtables, inner, k) = Answer(k))
    /\ [][(Len(inner'.imm_memtables) < Len(inner.imm_memtables))
              <=> (Len(inner'.l0_sstables) > Len(inner.l0_sstables))]_vars

\* C22: snapshot isolation of topology.  The snapshot a reader has cloned
\* (active memtable, immutable list, L0 list, next_sst_id) never changes while
\* the reader works on it, whatever syncs run meanwhile; the published record
\* is replaced only by the rotation and the publication step of a sync, and
\* a step of put, delete, get or scan leaves its immutable list, L0 list and
\* next_sst_id as they are.
C22_SnapshotIsolation ==
    [][/\ \A t \in Threads :
              (pc[t] = "get" /\ pc'[t] = "get") => frame'[t].snapshot = frame[t].snapshot
       /\ inner' # inner =>
              \E t \in Threads :
                  /\ pc[t] \in {"sync_rotate", "sync_publish"}
                  /\ pc'[t] # pc[t]
       /\ (nwrites' # nwrites \/ ngets' # ngets \/ cursor' # cursor
              \/ \E t \in Threads : pc[t] = "get" /\ pc'[t] # "get") =>
              /\ inner'.imm_memtables = inner.imm_memtables
              /\ inner'.l0_sstables = inner.l0_sstables
              /\ inner'.next_sst_id = inner.next_sst_id]_vars

\* A reader holds a snapshot taken before a sync rotated the memtable and
\* published its SST: the published record has moved on, the snapshot has not.
C22_Witness ==
    \E t \in Threads :
        /\ pc[t] = "get"
        /\ frame[t].snapshot.l0_sstables = <<>>
        /\ frame[t].snapshot.memtable # inner.memtable
        /\ inner.l0_sstables # <<>>
        /\ inner.next_sst_id > frame[t].snapshot.next_sst_id

\* C23: SST ids.  next_sst_id starts at 1, never decreases and grows by
\* exactly one per completed sync (in its publication step, and in no other
\* step); the SSTs in L0 have pairwise distinct ids, increasing from earliest
\* to latest, each smaller than next_sst_id, as is the id a sync in progress
\* has taken; so no two SSTs share a block-cache key (sst_id, block_idx).
C23_SstIds ==
    /\ [](/\ inner.next_sst_id = 1 + Len(inner.l0_sstables)
          /\ \A i \in 1..Len(inner.l0_sstables) :
                 /\ inner.l0_sstables[i].id >= 1
                 /\ inner.l0_sstables[i].id < inner.next_sst_id
                 /\ \A j \in (i + 1)..Len(inner.l0_sstables) :
                        /\ inner.l0_sstables[i].id < inner.l0_sstables[j].id
                        /\ \A x \in 0..SsTable_num_of_blocks(inner.l0_sstables[i]),
                              y \in 0..SsTable_num_of_blocks(inner.l0_sstables[j]) :
                               <<inner.l0_sstables[i].id, x>> # <<inner.l0_sstables[j].id, y>>
          /\ \A t \in Threads :
                 pc[t] \in {"sync_build", "sync_publish"} =>
                     /\ frame[t].sst_id = inner.next_sst_id
                     /\ (pc[t] = "sync_publish") => (frame[t].sst.id = frame[t].sst_id))
    /\ [][/\ inner'.next_sst_id >= inner.next_sst_id
          /\ (inner'.next_sst_id # inner.next_sst_id) =>
                 (/\ inner'.next_sst_id = inner.next_sst_id + 1
                  /\ \E t \in Threads : pc[t] = "sync_publish" /\ pc'[t] = "sync_return")
          /\ (\E t \in Threads : pc[t] = "sync_publish" /\ pc'[t] = "sync_return") =>
                 (inner'.next_sst_id = inner.next_sst_id + 1)]_vars

\* Two syncs have completed: L0 holds the SSTs 1 and 2 and the next id is 3.
C23_Witness ==
    /\ Len(inner.l0_sstables) = 2
    /\ inner.l0_sstables[1].id = 1
    /\ inner.l0_sstables[2].id = 2
    /\ inner.next_sst_id = 3
    /\ \A t \in Threads : pc[t] = "idle"

\* ------------------------------------------------------------------ iterators driven alone
\* Number of input iterators handed to MergeIterator::create.
MaxIters == 2

\* The store as opened, with `locals` in the frame of the driving thread and
\* `object` in the cursor slot.
Driver(locals, object) ==
    /\ inner = LsmStorageInner_create
    /\ memtables = <<MemTable_create>>
    /\ flush_lock = <<>>
    /\ block_cache = [k \in {} |-> <<>>]
    /\ pc = [t \in Threads |-> "idle"]
    /\ frame = [t \in Threads |-> IF t \in ScanThreads THEN locals ELSE NoFrame]
    /\ ret = [t \in Threads |-> NoRet]
    /\ cursor = <<object>>
    /\ scan_bounds = [lower |-> Unbounded, upper |-> Unbounded]
    /\ after_end = FALSE
    /\ latest = [k \in {} |-> <<>>]
    /\ writer = [k \in {} |-> ""]
    /\ synced = {}
    /\ nwrites = 0
    /\ nsyncs = 0
    /\ ngets = 0

\* What a driving step leaves alone: everything but the cursor and its output.
driverVars ==
    <<inner, memtables, flush_lock, block_cache, pc, frame, ret, scan_bounds,
      after_end, latest, writer, synced, nwrites, nsyncs, ngets>>

\* The locals of the driving thread.
locals == frame[CHOOSE t \in ScanThreads : TRUE]

\* The data of a sorted run with unique keys: each key absent or with one value.
SortedRuns ==
    {[i \in 1..Len(SortedKeys(S)) |-> [key |-> SortedKeys(S)[i], value |-> f[SortedKeys(S)[i]]]] :
        <<S, f>> \in UNION {{<<S, f>> : f \in [S -> Values]} : S \in SUBSET Keys}}

\* The entry a MergeIterator stands on, if it is valid.
merge_entry(m) ==
    IF MergeIterator_is_valid(m)
    THEN <<[key |-> MergeIterator_key(m), value |-> MergeIterator_value(m)]>>
    ELSE <<>>

\* MergeIterator::create over up to MaxIters MockIterators.
InitMerge ==
    \E n \in 0..MaxIters : \E data \in [1..n -> SortedRuns] :
        \E m \in {MergeIterator_create([i \in 1..n |-> MockIterator_new(data[i])])} :
            /\ Driver([op |-> "merge", data |-> data], m)
            /\ emitted = merge_entry(m)

\* The caller reads the entry and calls next() while the iterator is valid.
merge_next ==
    /\ cursor[1] # Panic
    /\ MergeIterator_is_valid(cursor[1])
    /\ \E m \in {MergeIterator_next(block_cache, cursor[1])} :
           /\ cursor' = <<m>>
           /\ emitted' = IF m = Panic THEN emitted ELSE emitted \o merge_entry(m)
    /\ UNCHANGED driverVars

NextMerge == merge_next

SpecMerge == InitMerge /\ [][NextMerge]_vars

\* The keys held by some input, ascending, each with the value of the first
\* input that holds it.
MergedView(data) ==
    LET keys == SortedKeys({data[i][j].key : <<i, j>> \in
                    UNION {{<<i, j>> : j \in 1..Len(data[i])} : i \in 1..Len(data)}})
        first(k) == CHOOSE i \in 1..Len(data) :
                        /\ \E j \in 1..Len(data[i]) : data[i][j].key = k
                        /\ \A h \in 1..(i - 1) : \A j \in 1..Len(data[h]) : data[h][j].key # k
        valueIn(i, k) == data[i][CHOOSE j \in 1..Len(data[i]) : data[i][j].key = k].value
    IN  [x \in 1..Len(keys) |-> [key |-> keys[x], value |-> valueIn(first(keys[x]), keys[x])]]

\* C13: MergeIterator de-duplication.  Over sorted inputs with unique keys the
\* entries the iterator stands on are, in order, every distinct key once,
\* ascending, with the value of the input of smallest index holding it; when the
\* iterator is invalid all of them were emitted (none for no input or only
\* exhausted inputs); next never panics on a valid iterator.
C13_MergeDedup ==
    /\ cursor[1] # Panic
    /\ IsPrefix(emitted, MergedView(locals.data))
    /\ ~MergeIterator_is_valid(cursor[1]) => emitted = MergedView(locals.data)

\* Two inputs share a key with different values and the merge has run to its end.
C13_Witness ==
    /\ cursor[1] # Panic
    /\ ~MergeIterator_is_valid(cursor[1])
    /\ Len(emitted) >= 2
    /\ Len(locals.data) = 2
    /\ \E i \in 1..Len(locals.data[1]), j \in 1..Len(locals.data[2]) :
           /\ locals.data[1][i].key = locals.data[2][j].key
           /\ locals.data[1][i].value # locals.data[2][j].value

\* The entry a TwoMergeIterator stands on, if it is valid.
two_merge_entry(t) ==
    IF TwoMergeIterator_is_valid(t)
    THEN <<[key |-> TwoMergeIterator_key(t), value |-> TwoMergeIterator_value(t)]>>
    ELSE <<>>

\* TwoMergeIterator::create over a pair of sorted iterators A and B.
InitTwoMerge ==
    \E a \in SortedRuns, b \in SortedRuns :
        \E t \in {TwoMergeIterator_create([k \in {} |-> <<>>],
                      MergeIterator_create(<<MockIterator_new(a)>>),
                      MergeIterator_create(<<MockIterator_new(b)>>))} :
            /\ Driver([op |-> "two_merge", data |-> <<a, b>>], t)
            /\ emitted = two_merge_entry(t)

\* The caller reads the entry and calls next() while the iterator is valid.
two_merge_next ==
    /\ cursor[1] # Panic
    /\ cursor[1].type = "two"
    /\ TwoMergeIterator_is_valid(cursor[1])
    /\ \E t \in {TwoMergeIterator_next(block_cache, cursor[1])} :
           /\ cursor' = <<t>>
           /\ emitted' = IF t = Panic THEN emitted ELSE emitted \o two_merge_entry(t)
    /\ UNCHANGED driverVars

NextTwoMerge == two_merge_next

SpecTwoMerge == InitTwoMerge /\ [][NextTwoMerge]_vars

\* C14: TwoMergeIterator A-precedence.  Over a pair of sorted iterators A and B
\* the entries the iterator stands on are, in order, the union of their keys,
\* ascending, each key once, with A's value for a key held by both; after create
\* and after every next, when both children are valid their keys differ, and
\* choose_a is true iff A is valid and (B is invalid or A.key < B.key).
C14_APrecedence ==
    /\ cursor[1] # Panic
    /\ IsPrefix(emitted, MergedView(locals.data))
    /\ ~TwoMergeIterator_is_valid(cursor[1]) => emitted = MergedView(locals.data)
    /\ (MergeIterator_is_valid(cursor[1].a) /\ MergeIterator_is_valid(cursor[1].b)) =>
           MergeIterator_key(cursor[1].a) # MergeIterator_key(cursor[1].b)
    /\ cursor[1].choose_a <=>
           /\ MergeIterator_is_valid(cursor[1].a)
           /\ \/ ~MergeIterator_is_valid(cursor[1].b)
              \/ cmp(MergeIterator_key(cursor[1].a), MergeIterator_key(cursor[1].b)) = "Less"

\* A and B share a key with different values, each holds a key the other lacks,
\* and the iterator has run to its end.
C14_Witness ==
    /\ cursor[1] # Panic
    /\ cursor[1].type = "two"
    /\ ~TwoMergeIterator_is_valid(cursor[1])
    /\ Len(emitted) >= 3
    /\ \E i \in 1..Len(locals.data[1]), j \in 1..Len(locals.data[2]) :
           /\ locals.data[1][i].key = locals.data[2][j].key
           /\ locals.data[1][i].value # locals.data[2][j].value
    /\ \E i \in 1..Len(locals.data[1]) :
           \A j \in 1..Len(locals.data[2]) : locals.data[1][i].key # locals.data[2][j].key
    /\ \E j \in 1..Len(locals.data[2]) :
           \A i \in 1..Len(locals.data[1]) : locals.data[1][i].key # locals.data[2][j].key

\* ------------------------------------------------------------------ SSTs driven alone
\* Target block sizes: one entry per block, two per block, all in one block.
BlockSizes == {10, 20, SYNC_BLOCK_SIZE}

\* Probe keys: the keys, and keys below, between and above them.
ProbeKeys == Keys \cup {<<0>>, <<1, 0>>, <<1, 2>>, <<3>>}

\* Entries in ascending key order: each key absent, deleted or with a value.
EntryRuns ==
    {[i \in 1..Len(SortedKeys(S)) |-> [key |-> SortedKeys(S)[i], value |-> f[SortedKeys(S)[i]]]] :
        <<S, f>> \in UNION {{<<S, f>> : f \in [S -> Values \cup {<<>>}]} : S \in SUBSET Keys}}

\* SsTableBuilder::add called once per entry, in order.
RECURSIVE add_all(_, _)
add_all(builder, entries) ==
    IF entries = <<>> THEN builder
    ELSE add_all(SsTableBuilder_add(builder, Head(entries).key, Head(entries).value),
                 Tail(entries))

\* The SST built from `entries` with target block size block_size.
built_sst(entries, block_size) ==
    SsTableBuilder_build(add_all(SsTableBuilder_new(block_size), entries), 0)

\* The entry an SsTableIterator stands on, if it is valid.
sst_entry(it) ==
    IF it # Panic /\ Child_is_valid(it)
    THEN <<[key |-> Child_key(it), value |-> Child_value(it)]>>
    ELSE <<>>

\* SsTableIterator::create_and_seek_to_key(table, key) on a built SST.
InitSeek ==
    \E entries \in EntryRuns, block_size \in BlockSizes, key \in ProbeKeys :
        \E table \in {built_sst(entries, block_size)} :
            \E it \in {SsTableIterator_create_and_seek_to_key([k \in {} |-> <<>>], table, key)} :
                /\ Driver([op |-> "seek", entries |-> entries, table |-> table, key |-> key], it)
                /\ emitted = sst_entry(it)

\* The caller reads the entry and calls next() while the iterator is valid.
seek_next ==
    /\ cursor[1] # Panic
    /\ cursor[1].type = "sst"
    /\ Child_is_valid(cursor[1])
    /\ \E it \in {SsTableIterator_next(block_cache, cursor[1])} :
           /\ cursor' = <<it>>
           /\ emitted' = emitted \o sst_entry(it)
    /\ UNCHANGED driverVars

NextSeek == seek_next

SpecSeek == InitSeek /\ [][NextSeek]_vars

\* The entries of the ascending sequence `entries` with key >= key.
SeekView(entries, key) ==
    SubSeq(entries,
           1 + Cardinality({i \in 1..Len(entries) : cmp(entries[i].key, key) = "Less"}),
           Len(entries))

\* C15: SST seek correctness.  On a built SST of one or several blocks,
\* create_and_seek_to_key(k) stands on the first entry of the whole SST with
\* key >= k and is invalid if there is none: for k below every key, for k above
\* every key of the block find_block_idx chose but below the next block's first
\* key, and for k above every key.  From there next walks the remaining entries
\* in order.
C15_SeekCorrect ==
    SsTable_num_of_blocks(locals.table) >= 1 =>
        /\ cursor[1] # Panic
        /\ IsPrefix(emitted, SeekView(locals.entries, locals.key))
        /\ emitted = <<>> <=> SeekView(locals.entries, locals.key) = <<>>
        /\ ~Child_is_valid(cursor[1]) => emitted = SeekView(locals.entries, locals.key)

\* The probe lies above every key of the block find_block_idx chose and below
\* the first key of the next block, and the seek stands on that first key.
C15_Witness ==
    /\ cursor[1] # Panic
    /\ cursor[1].type = "sst"
    /\ Len(emitted) = 1
    /\ cursor[1].block_idx = SsTable_find_block_idx(locals.table, locals.key) + 1
    /\ Child_key(cursor[1]) = locals.table.block_metas[cursor[1].block_idx + 1].first_key
    /\ cmp(locals.key, Child_key(cursor[1])) = "Less"

\* The encoded length of the entry of `block` that starts at data offset `offset`.
entry_len_at(block, offset) ==
    LET key_len == two_u8_to_u16(slice(block.data, offset, offset + SIZEOF_U16))
        value_at == offset + SIZEOF_U16 + key_len
    IN  SIZEOF_U16 + key_len + SIZEOF_U16
            + two_u8_to_u16(slice(block.data, value_at, value_at + SIZEOF_U16))

\* `block` is one block with at least one entry: its offsets are the starts of
\* its entries, which follow each other from 0 and fill the data region.
WholeBlock(block) ==
    /\ Len(block.offsets) >= 1
    /\ block.offsets[1] = 0
    /\ \A j \in 1..Len(block.offsets) :
           block.offsets[j] + entry_len_at(block, block.offsets[j]) =
               IF j = Len(block.offsets) THEN Len(block.data) ELSE block.offsets[j + 1]

\* C16: SST ordering.  In an SST built by feeding entries in ascending key order
\* to SsTableBuilder, the keys over all blocks read in block order are strictly
\* ascending (the entries are those fed); block_metas has one entry per block
\* in order: the data region of the file is covered from offset 0 by the blocks
\* the metas name, block_metas[i].offset is the byte offset at which block i
\* starts, and block_metas[i].first_key is the first key stored in block i,
\* also when a full block rejected an add and a fresh one took it.
C16_SstOrdering ==
    LET table == locals.table
        n == SsTable_num_of_blocks(table)
    IN  /\ table.block_meta_offset > 0 => (n >= 1 /\ table.block_metas[1].offset = 0)
        /\ \A i \in 1..n :
               /\ table.block_metas[i].offset < table.block_meta_offset
               /\ i < n => table.block_metas[i].offset < table.block_metas[i + 1].offset
               /\ WholeBlock(SsTable_read_block(table, i - 1))
               /\ block_entries(SsTable_read_block(table, i - 1))[1].key =
                      table.block_metas[i].first_key
        /\ sst_entries(table) = locals.entries
        /\ \A i \in 1..(Len(sst_entries(table)) - 1) :
               cmp(sst_entries(table)[i].key, sst_entries(table)[i + 1].key) = "Less"

\* ------------------------------------------------------------------ blocks driven alone
\* Number of add calls made on one BlockBuilder.
MaxAdds == 3

\* Target sizes: below the size of the count, the count alone, and sizes that
\* the second, third or fourth entry fills.
TargetSizes == {0, 1, 2, 20, 28}

\* BlockBuilder::new(block_size), in a build with or without overflow checks.
InitBlock ==
    \E block_size \in TargetSizes, overflow_checks \in BOOLEAN :
        /\ Driver([op |-> "block", overflow_checks |-> overflow_checks],
                  BlockBuilder_new(block_size))
        /\ emitted = <<>>

\* add(key, value); the call and what it returned are appended to `emitted`.
block_add(key, value) ==
    /\ cursor[1] # Panic
    /\ Len(emitted) < MaxAdds
    /\ \E r \in {BlockBuilder_add_built(locals.overflow_checks, cursor[1], key, value)} :
           /\ cursor' = IF r.panicked THEN <<Panic>> ELSE <<r.builder>>
           /\ emitted' = Append(emitted, [key |-> key, value |-> value,
                                          ok |-> r.ok, panicked |-> r.panicked])
    /\ UNCHANGED driverVars

NextBlock == \E key \in Keys, value \in Values \cup {<<>>} : block_add(key, value)

SpecBlock == InitBlock /\ [][NextBlock]_vars

\* C17: block capacity.  A BlockBuilder with target size S admits the first add
\* whatever its size; every later add(key, value) is rejected iff (bytes of
\* entries so far + 2 bytes per offset so far) + (4 + |key| + |value|) + 2 + 2
\* exceeds S; a rejected add returns false and leaves data, offsets and the
\* occupied size unchanged, an admitted one appends the entry and its offset.
C17_BlockCapacity ==
    [][\A key \in Keys, value \in Values \cup {<<>>} :
          block_add(key, value) =>
              /\ ~emitted'[Len(emitted')].panicked
              /\ BlockBuilder_is_empty(cursor[1]) => emitted'[Len(emitted')].ok
              /\ ~BlockBuilder_is_empty(cursor[1]) =>
                     (~emitted'[Len(emitted')].ok <=>
                         (Len(cursor[1].data) + (2 * Len(cursor[1].offsets)))
                             + (4 + Len(key) + Len(value)) + 2 + 2 > cursor[1].block_size)
              /\ ~emitted'[Len(emitted')].ok => cursor' = cursor
              /\ emitted'[Len(emitted')].ok =>
                     /\ cursor'[1].data = cursor[1].data \o entry_encode(key, value)
                     /\ cursor'[1].offsets = Append(cursor[1].offsets, Len(cursor[1].data))
                     /\ cursor'[1].occupy_size =
                            Len(cursor'[1].data) + (2 * Len(cursor'[1].offsets))]_vars

\* Sequences of at most MaxAdds (key, value) pairs, in any order, and one pair
\* whose value is too long for a u16 length.
PairSeqs ==
    UNION {[1..n -> [key : Keys, value : Values \cup {<<>>}]] : n \in 0..MaxAdds}
        \cup {<<[key |-> <<1>>, value |-> [i \in 1..65536 |-> 0]]>>}

\* The builder after add(pairs[1]), add(pairs[2]), ...; `r` is what the last
\* add returned.
RECURSIVE add_pairs(_, _)
add_pairs(r, pairs) ==
    IF pairs = <<>> \/ ~r.ok THEN r
    ELSE add_pairs(BlockBuilder_add(r.builder, Head(pairs).key, Head(pairs).value),
                   Tail(pairs))

\* The block built from `pairs`.
built_block(pairs) ==
    BlockBuilder_build(add_pairs([ok |-> TRUE, panicked |-> FALSE,
                                  builder |-> BlockBuilder_new(SYNC_BLOCK_SIZE)], pairs).builder)

\* The entry a BlockIterator stands on, if it is valid.
block_entry(it) ==
    IF BlockIterator_is_valid(it) THEN <<[key |-> it.key, value |-> it.value]>> ELSE <<>>

\* A block is built from pairs that a BlockBuilder admits in order, encoded and
\* decoded, and a BlockIterator is created on it and sought to the first entry.
InitRoundTrip ==
    \E pairs \in PairSeqs :
        \E r \in {add_pairs([ok |-> TRUE, panicked |-> FALSE,
                             builder |-> BlockBuilder_new(SYNC_BLOCK_SIZE)], pairs)} :
            /\ r.ok
            /\ \E it \in {BlockIterator_create_and_seek_to_first(
                              Block_decode(Block_encode(BlockBuilder_build(r.builder))))} :
                   /\ Driver([op |-> "round_trip", pairs |-> pairs], it)
                   /\ emitted = block_entry(it)

\* next(), also called on an iterator that is no longer valid.
round_trip_next ==
    /\ cursor[1].idx <= Len(cursor[1].block.offsets)
    /\ \E it \in {BlockIterator_next(cursor[1])} :
           /\ cursor' = <<it>>
           /\ emitted' = emitted \o block_entry(it)
    /\ UNCHANGED driverVars

NextRoundTrip == round_trip_next

SpecRoundTrip == InitRoundTrip /\ [][NextRoundTrip]_vars

\* C18: block round-trip.  For any sequence of pairs a BlockBuilder admitted in
\* order, Block::decode(block.encode()) has the data and the offsets of the
\* built block, and a BlockIterator over it, from seek_to_first through
\* successive next calls, stands on the pairs of the sequence in order, then
\* becomes invalid and stays invalid.
C18_BlockRoundTrip ==
    /\ [](/\ cursor[1].block = built_block(locals.pairs)
          /\ IsPrefix(emitted, locals.pairs)
          /\ ~BlockIterator_is_valid(cursor[1]) => emitted = locals.pairs)
    /\ [][~BlockIterator_is_valid(cursor[1]) => ~BlockIterator_is_valid(cursor'[1])]_vars

\* C24: every operation runs to completion.  Under fair scheduling every started
\* put, delete, get, scan and sync returns: no operation ends in a panic, and a
\* thread in an operation is idle again later.  The state lock is taken in sync
\* only by the holder of the flush mutex, a thread waiting for the flush mutex
\* does not hold it, and no state is a deadlock: while an operation is under
\* way, some thread can take a step.
C24_RunsToCompletion ==
    /\ [](\A t \in Threads :
            /\ pc[t] # "panicked"
            /\ (pc[t] \in {"sync_rotate", "sync_build", "sync_publish", "sync_return"})
                   => (flush_lock = <<t>>)
            /\ (pc[t] \in {"idle", "get", "sync_lock"}) => (flush_lock # <<t>>))
    /\ []((\E t \in Threads : pc[t] # "idle")
             => (\E t \in Threads : pc[t] \in Running \/ ENABLED sync_lock(t)))
    /\ \A t \in Threads : (pc[t] # "idle") ~> (pc[t] = "idle")

\* The sub-iterators of a MergeIterator: current and those in the heap.
sub_iterators(m) == {m.current[i] : i \in 1..Len(m.current)} \cup m.iters

\* x comes before y in the order (key ascending, input index ascending).
key_idx_less(x, y) ==
    \/ cmp(Child_key(x.iter), Child_key(y.iter)) = "Less"
    \/ Child_key(x.iter) = Child_key(y.iter) /\ x.idx < y.idx

\* current, if valid, is the minimum by (key, index) over the valid sub-iterators.
current_is_minimum(m) ==
    MergeIterator_is_valid(m) =>
        \A w \in m.iters : Child_is_valid(w.iter) => key_idx_less(m.current[1], w)

\* No two valid sub-iterators stand on the same key.
distinct_positions(m) ==
    \A x, y \in {w \in sub_iterators(m) : Child_is_valid(w.iter)} :
        x # y => Child_key(x.iter) # Child_key(y.iter)

\* C25, as stated: after every successful next on a MergeIterator over sorted
\* inputs no two sub-iterators (current and those in the heap) stand on the
\* same key, and current, if valid, is the minimum by (key, input index) over
\* all valid sub-iterators.
C25_DistinctAndMinimum ==
    [][(cursor' # cursor /\ cursor'[1] # Panic)
           => (distinct_positions(cursor[1]) /\ current_is_minimum(cursor[1]))']_vars

\* C25, amended: after every successful next on a MergeIterator over sorted
\* inputs every sub-iterator in the heap is valid, the heap holds at most one
\* sub-iterator per input and none of current's input, and current, if valid,
\* is the minimum by (key, input index) over all valid sub-iterators.  A
\* sub-iterator in the heap may stand on current's key: it is advanced by the
\* following next, before current is.
C25_MinimumAfterNext ==
    [][(cursor' # cursor /\ cursor'[1] # Panic)
           => (/\ \A w \in cursor[1].iters : Child_is_valid(w.iter)
               /\ \A x, y \in sub_iterators(cursor[1]) : x # y => x.idx # y.idx
               /\ current_is_minimum(cursor[1]))']_vars

\* After a next, current is valid and a sub-iterator in the heap stands on the
\* key current stands on.
C25_Witness ==
    /\ cursor[1] # Panic
    /\ Len(emitted) >= 2
    /\ MergeIterator_is_valid(cursor[1])
    /\ \E w \in cursor[1].iters : Child_key(w.iter) = MergeIterator_key(cursor[1])

\* The sorted runs that hold one and the same value throughout.
FailingRuns ==
    {r \in SortedRuns : \A i \in 1..Len(r) : r[i].value = (CHOOSE v \in Values : TRUE)}

\* MergeIterator::create over up to MaxIters children, each of which fails at
\* one of its positions or, with error_when at its end, at none.
InitMergeErr ==
    \E n \in 0..MaxIters : \E data \in [1..n -> FailingRuns] :
        \E error_when \in [1..n -> 0..Cardinality(Keys)] :
            /\ \A i \in 1..n : error_when[i] <= Len(data[i])
            /\ Driver([op |-> "merge", data |-> data],
                      MergeIterator_create(
                          [i \in 1..n |-> FailingIterator_new(data[i], error_when[i])]))
            /\ emitted = <<>>

\* The caller calls next() while the iterator is valid and has returned no
\* error, and keeps the Result returned.
merge_err_next ==
    /\ cursor[1] # Panic
    /\ MergeIterator_is_valid(cursor[1])
    /\ IF emitted = <<>> THEN TRUE ELSE emitted[Len(emitted)].result = "Ok"
    /\ cursor' = <<MergeIterator_next(block_cache, cursor[1])>>
    /\ emitted' = Append(emitted,
                      [result |-> MergeIterator_next_result(block_cache, cursor[1])])
    /\ UNCHANGED driverVars

NextMergeErr == merge_err_next

SpecMergeErr == InitMergeErr /\ [][NextMergeErr]_vars

\* The input indices of the children whose next fails during a next on m: the
\* first heap entry in heap order that stands on current's key and fails, or,
\* when there is none, current if it fails.
failing_child(m) ==
    LET same == {w \in m.iters : /\ Child_key(w.iter) = Child_key(m.current[1].iter)
                                /\ Child_next_fails(w.iter)}
    IN  IF same # {}
        THEN {w.idx : w \in {x \in same : \A y \in same : x.idx <= y.idx}}
        ELSE IF Child_next_fails(m.current[1].iter) THEN {m.current[1].idx} ELSE {}

\* C26: MergeIterator error propagation.  Whenever the next of a child fails
\* during MergeIterator::next, be the child a heap entry that is de-duplicated
\* or current itself, next returns the error and the failing child is neither
\* current nor in the heap afterwards.
C26_ErrorPropagation ==
    [][emitted' # emitted =>
          \A i \in failing_child(cursor[1]) :
              /\ emitted'[Len(emitted')].result = "Err"
              /\ i \notin {w.idx : w \in sub_iterators(cursor'[1])}]_vars

\* C27: no out-of-range block read.  In every state reachable by put, delete
\* and sync, a sync of an empty memtable included, no scan and no next on the
\* cursor has panicked, and every block index that a get or a scan of the
\* published snapshot hands to read_block_cached (block 0 for a seek to the
\* first entry, find_block_idx(key) for a seek to a key), and every index an
\* SsTableIterator of the cursor stands at, is below num_of_blocks() of its SST.
C27_BlockReadsInRange ==
    /\ \A t \in Threads : pc[t] # "panicked"
    /\ \A i \in 1..Len(inner.l0_sstables) :
           /\ ~read_block_panics(inner.l0_sstables[i], 0)
           /\ \A k \in Keys :
                  ~read_block_panics(inner.l0_sstables[i],
                                     SsTable_find_block_idx(inner.l0_sstables[i], k))
    /\ \A k \in Keys : LsmStorage_get(block_cache, memtables, inner, k) # Panicked
    /\ (cursor # <<>>) =>
           /\ cursor[1] # Panic
           /\ \A it \in cursor_table_iters(cursor[1]) :
                  it.block_idx < SsTable_num_of_blocks(it.table)

\* Vec::remove(0) on a non-empty vector: the element removed, and Vec::pop's.
vec_first(v) == v[1]
vec_last(v) == v[Len(v)]

\* C28: the immutable list holds at most one memtable.  In the published
\* snapshot, and in every snapshot a get holds, imm_memtables is empty when no
\* sync is between rotation and publication and holds exactly the memtable
\* being flushed when one is (a get's snapshot: at most one memtable), so the
\* last and the first element of a non-empty list are the same memtable.
C28_OneImmutable ==
    /\ Cardinality({t \in Threads : Flushing(t)}) <= 1
    /\ Len(inner.imm_memtables) = Cardinality({t \in Threads : Flushing(t)})
    /\ \A t \in Threads : Flushing(t) => inner.imm_memtables = <<frame[t].flush_memtable>>
    /\ (inner.imm_memtables # <<>>) =>
           vec_first(inner.imm_memtables) = vec_last(inner.imm_memtables)
    /\ \A t \in Threads : pc[t] = "get" =>
           /\ Len(frame[t].snapshot.imm_memtables) <= 1
           /\ (frame[t].snapshot.imm_memtables # <<>>) =>
                  vec_first(frame[t].snapshot.imm_memtables)
                      = vec_last(frame[t].snapshot.imm_memtables)

\* After a write, one sync is about to publish while the other thread is in a get
\* whose snapshot lists the memtable being flushed.
C28_Witness ==
    /\ \E t, u \in Threads :
           /\ pc[t] = "sync_publish"
           /\ pc[u] = "get"
           /\ frame[u].snapshot.imm_memtables = <<frame[t].flush_memtable>>
    /\ Len(inner.imm_memtables) = 1
    /\ nwrites > 0

====
